---------------------------- MODULE Spec2Model ----------------------------
(***************************************************************************)
(* A model of app.py, the Flask + yt-dlp download backend.                 *)
(*                                                                         *)
(*   SpecRank      the format ranking of get_video_info                    *)
(*   SpecSanitize  sanitize_filename, applied once and then once more      *)
(*   SpecPath      the output template built by download_video             *)
(*   Spec          download_video / progress_hook / get_progress running   *)
(*                 as concurrent request threads over download_progress    *)
(*   SpecDownloads download_video and cleanup_files over the downloads     *)
(*                 directory, with every kind of URL and of failure        *)
(*   SpecHook      progress_hook called once on any dict and event         *)
(*                                                                         *)
(* Strings are sequences of one-character strings.  Python's None is the   *)
(* number None, a key that is absent from a dict is the number Absent.     *)
(***************************************************************************)
EXTENDS Integers, Sequences, FiniteSets, TLC

VARIABLES
    formats,            \* get_video_info: info.get('formats', [])
    info_response,      \* get_video_info: the response, NotRun before the call
    filename,           \* sanitize_filename: its argument
    sanitized,          \* sanitize_filename(filename)
    resanitized,        \* sanitize_filename(sanitize_filename(filename))
    DOWNLOAD_DIR,       \* the downloads directory, fixed at start-up
    info_title,         \* download_video: info.get('title', 'video')
    is_audio_only,      \* download_video: data.get('audio_only', False)
    outtmpl,            \* download_video: ydl_opts['outtmpl'], NotRun before
    download_progress,  \* the module-level dict: video id -> record
    pc,                 \* download thread -> its position in download_video
    video_id,           \* download thread -> info.get('id') of its request, NoId outside one
    streams_left,       \* download thread -> streams the provider still fetches
    hook_id,            \* the id of the event of the latest progress_hook call
    progress,           \* poll thread -> the object get_progress looked up
    poll_id,            \* poll thread -> the <video_id> of its request
    poll_response,      \* poll thread -> the JSON it returned
    response,           \* download thread -> status of its last response
    raised,             \* download thread -> the exception its request raised
    files,              \* the names of the files in DOWNLOAD_DIR
    downloaded_file,    \* download thread -> the filename of its response
    event,              \* progress_hook called by itself: its argument d
    url,                \* request -> the 'url' of its JSON body, NoUrl before it is read
    extract_calls       \* the requests that called ydl.extract_info

vars == <<formats, info_response, filename, sanitized, resanitized,
          DOWNLOAD_DIR, info_title, is_audio_only, outtmpl,
          download_progress, pc, video_id, streams_left, hook_id,
          progress, poll_id, poll_response, response, raised,
          files, downloaded_file, event, url, extract_calls>>

rankVars == <<formats, info_response>>
sanVars  == <<filename, sanitized, resanitized>>
pathVars == <<DOWNLOAD_DIR, info_title, is_audio_only, outtmpl>>
pollVars == <<progress, poll_id, poll_response>>
fileVars == <<files, downloaded_file>>
jobVars  == <<download_progress, pc, video_id, streams_left, hook_id,
              pollVars, response, raised, fileVars, event>>
reqVars  == <<url, extract_calls>>

None   == 0 - 1
Absent == 0 - 2
\* The value of a response or result before the call that produces it
NotRun    == [status |-> 0]
NotRunStr == <<"NotRun">>

\* x or y, for numbers and None: Python's `or` returns y when x is falsy
Or(x, y) == IF x = None \/ x = Absent \/ x = 0 THEN y ELSE x

\* d.get(key, default) for a key that may be absent
Get(v, default) == IF v = Absent THEN default ELSE v

Last(s) == s[Len(s)]
Front(s) == SubSeq(s, 1, Len(s) - 1)

(***************************************************************************)
(* get_video_info: one best format per height, the common heights, and the *)
(* audio-only entry.                                                       *)
(***************************************************************************)

\* The longest list of descriptors tried after the fixed prefix
MaxFormats == 3

\* The list with two heights exchanged
target_heights_misordered == <<2160, 1440, 720, 1080, 480, 360, 240>>

target_heights == <<2160, 1440, 1080, 720, 480, 360, 240>>

\* The entry kept in formats_by_height for one descriptor (lines 147-156).
\* filesize_str is text derived from filesize and is left out.
Entry(f) ==
    [format_id |-> f.format_id,
     height    |-> f.height,
     ext       |-> f.ext,
     filesize  |-> Or(f.filesize, Get(f.filesize_approx, 0)),
     has_audio |-> f.acodec # "none",
     vbr       |-> Or(f.vbr, Or(f.tbr, 0))]

\* A comparison Python refuses: None against a number or None
BadCompare(x, y) == x = None \/ y = None

\* Line 160 without its file size clause
ReplacesByRateOnly(new, existing) ==
    IF new.vbr > existing.vbr THEN "yes" ELSE "no"

\* Line 160: the new format replaces the existing one.  "TypeError" when
\* Python raises on the comparison; `or` and `and` short-circuit.
Replaces(new, existing) ==
    IF new.vbr > existing.vbr THEN "yes"
    ELSE IF BadCompare(new.filesize, existing.filesize) THEN "TypeError"
    ELSE IF new.filesize > existing.filesize /\ new.vbr >= existing.vbr THEN "yes"
    ELSE "no"

Skipped(f) == f.vcodec = "none" \/ f.height = None \/ f.height = 0

\* Position of height h in the insertion-ordered dict, 0 when absent
IndexOf(dict, h) ==
    IF \E i \in 1..Len(dict) : dict[i].height = h
    THEN CHOOSE i \in 1..Len(dict) : dict[i].height = h
    ELSE 0

\* Lines 129-170: the loop over the formats.  The dict is a sequence of
\* entries in insertion order; raised is TRUE when line 160 raises.
RECURSIVE GroupByHeight(_, _)
GroupByHeight(fs, dict) ==
    IF fs = <<>> THEN [raised |-> FALSE, dict |-> dict]
    ELSE LET f == Head(fs)
             i == IndexOf(dict, f.height)
         IN  IF Skipped(f) THEN GroupByHeight(Tail(fs), dict)
             ELSE IF i = 0 THEN GroupByHeight(Tail(fs), Append(dict, Entry(f)))
             ELSE LET r == Replaces(Entry(f), dict[i])
                  IN  IF r = "TypeError" THEN [raised |-> TRUE, dict |-> dict]
                      ELSE IF r = "yes"
                           THEN GroupByHeight(Tail(fs), [dict EXCEPT ![i] = Entry(f)])
                           ELSE GroupByHeight(Tail(fs), dict)

\* Line 174: formats.sort(key=height, reverse=True), a stable insertion sort
RECURSIVE InsertDesc(_, _)
InsertDesc(e, s) ==
    IF s = <<>> THEN <<e>>
    ELSE IF Head(s).height >= e.height THEN <<Head(s)>> \o InsertDesc(e, Tail(s))
    ELSE <<e>> \o s

RECURSIVE SortDesc(_)
SortDesc(s) ==
    IF s = <<>> THEN <<>> ELSE InsertDesc(Last(s), SortDesc(Front(s)))

\* Line 184: the entry without its internal vbr field
StripVbr(e) ==
    [format_id |-> e.format_id, height |-> e.height, ext |-> e.ext,
     filesize |-> e.filesize, has_audio |-> e.has_audio]

\* Lines 181-186: the first format of the target height, if any
FirstMatch(sorted, target) ==
    LET hits == {i \in 1..Len(sorted) : sorted[i].height = target}
    IN  IF hits = {} THEN <<>>
        ELSE <<StripVbr(sorted[CHOOSE i \in hits : \A j \in hits : i <= j])>>

\* Lines 177-186: the loop over target_heights
RECURSIVE SelectTargets(_, _)
SelectTargets(sorted, targets) ==
    IF targets = <<>> THEN <<>>
    ELSE FirstMatch(sorted, Head(targets)) \o SelectTargets(sorted, Tail(targets))

\* Lines 189-198
AudioTier ==
    [format_id |-> "bestaudio", height |-> 0, ext |-> "mp3", filesize |-> 0,
     has_audio |-> TRUE, audio_only |-> TRUE]

AppendAudio(final_formats) == Append(final_formats, AudioTier)

\* Lines 127-216: the response for a resolved video
Rank(fs) ==
    LET g == GroupByHeight(fs, <<>>)
    IN  IF g.raised THEN [status |-> 500]
        ELSE [status |-> 200,
              formats |-> AppendAudio(SelectTargets(SortDesc(g.dict), target_heights))]


\* --- the descriptor lists tried

\* vbr and tbr as the provider reports them: both unknown, only tbr, both
Rates == {<<None, None>>, <<None, 1>>, <<2, 1>>}

\* filesize and filesize_approx: no size at all, both keys None, exact, approximate
Sizes == {<<None, Absent>>, <<None, None>>, <<1, Absent>>, <<None, 2>>}

Shape(vcodec, acodec, height, rate, size) ==
    [vcodec |-> vcodec, acodec |-> acodec, height |-> height, ext |-> "mp4",
     vbr |-> rate[1], tbr |-> rate[2],
     filesize |-> size[1], filesize_approx |-> size[2]]

\* 720p streams with every rate and the sizes unknown, None and approximate,
\* one with an exact size, and two 1080p streams
VideoShapes ==
    {Shape("avc1", "none", 720, r, z) :
        r \in Rates, z \in Sizes \ {<<1, Absent>>}}
    \cup {Shape("avc1", "none", 720, <<None, 1>>, <<1, Absent>>),
          Shape("avc1", "none", 1080, <<None, 1>>, <<1, Absent>>),
          Shape("avc1", "mp4a", 1080, <<2, 1>>, <<None, Absent>>)}

\* An audio-only stream, a storyboard with a height, video streams of unknown,
\* zero and uncommon height
OtherShapes ==
    {Shape("none", "opus", None, <<None, 1>>, <<1, Absent>>),
     Shape("none", "none", 720, <<None, None>>, <<None, Absent>>),
     Shape("avc1", "mp4a", None, <<2, 1>>, <<1, Absent>>),
     Shape("avc1", "mp4a", 0, <<2, 1>>, <<1, Absent>>),
     Shape("avc1", "mp4a", 144, <<2, 1>>, <<1, Absent>>)}

Shapes == VideoShapes \cup OtherShapes

\* One stream of every height the provider offers, 4320p down to 144p
AllHeights == <<4320, 2160, 1440, 1080, 720, 480, 360, 240, 144>>
Ladder == [i \in 1..Len(AllHeights) |->
              Shape("avc1", "none", AllHeights[i], <<1, 1>>, <<1, Absent>>)]

\* Heights [1080, 1080, 720, 360] with bitrates [5000, 8000, 3000, 1000]
Scenario ==
    <<Shape("avc1", "none", 1080, <<5000, None>>, <<None, Absent>>),
      Shape("avc1", "none", 1080, <<8000, None>>, <<None, Absent>>),
      Shape("avc1", "none", 720, <<3000, None>>, <<None, Absent>>),
      Shape("avc1", "none", 360, <<1000, None>>, <<None, Absent>>)>>

\* The provider gives every format of a video its own format_id
WithIds(shapes) ==
    [i \in 1..Len(shapes) |->
        [format_id |-> ToString(i), vcodec |-> shapes[i].vcodec,
         acodec |-> shapes[i].acodec, height |-> shapes[i].height,
         ext |-> shapes[i].ext, vbr |-> shapes[i].vbr, tbr |-> shapes[i].tbr,
         filesize |-> shapes[i].filesize,
         filesize_approx |-> shapes[i].filesize_approx]]

ShortLists == UNION {[1..n -> Shapes] : n \in 0..MaxFormats}

\* Short lists, the ladder followed by at most one more stream, the scenario
FormatLists ==
    {WithIds(t) : t \in ShortLists}
        \cup {WithIds(Ladder \o t) : t \in {<<>>} \cup {<<x>> : x \in Shapes}}
        \cup {WithIds(Scenario)}

(***************************************************************************)
(* sanitize_filename.  The characters that matter: a letter, the           *)
(* underscore, the period, the space, "/" for the characters Windows       *)
(* forbids, "TAB" for a control character (code points 0-31) and "NBSP"    *)
(* for whitespace that is not a control character (U+00A0).                *)
(***************************************************************************)

Alphabet == {"a", "_", ".", " ", "/", "TAB", "NBSP"}

max_length == 200

Str(n, c) == [i \in 1..n |-> c]
video == <<"v", "i", "d", "e", "o">>

\* Line 51: < > : " / \ | ? * and the control characters
IsInvalid(c) == c \in {"/", "TAB"}
\* What \s matches and what strip() removes
IsSpace(c) == c \in {" ", "TAB", "NBSP"}

\* Line 52: re.sub(invalid_chars, '_', filename)
ReplaceInvalid(s) == [i \in 1..Len(s) |-> IF IsInvalid(s[i]) THEN "_" ELSE s[i]]

\* The length of s without the characters of its end that are in chars
RECURSIVE RStripLen(_, _, _)
RStripLen(s, n, chars) ==
    IF n = 0 \/ s[n] \notin chars THEN n ELSE RStripLen(s, n - 1, chars)

\* The first position of s, from n on, of a character not in chars
RECURSIVE LStripPos(_, _, _)
LStripPos(s, n, chars) ==
    IF n > Len(s) \/ s[n] \notin chars THEN n ELSE LStripPos(s, n + 1, chars)

RStripChars(s, chars) == SubSeq(s, 1, RStripLen(s, Len(s), chars))
LStripChars(s, chars) == SubSeq(s, LStripPos(s, 1, chars), Len(s))

Whitespace == {c \in Alphabet : IsSpace(c)}

\* str.rstrip() and str.strip(): whitespace
RStrip(s) == RStripChars(s, Whitespace)
Strip(s) == LStripChars(RStrip(s), Whitespace)

\* Line 58: filename.rstrip('. ')
RStripPeriods(s) == RStripChars(s, {".", " "})

\* Line 55: re.sub(r'\s+', ' ', filename): every run of whitespace becomes
\* one space.  The halves are collapsed and joined, a run across the middle
\* giving one space.
RECURSIVE CollapseSpaces(_)
CollapseSpaces(s) ==
    IF Len(s) = 0 THEN <<>>
    ELSE IF Len(s) = 1 THEN <<IF IsSpace(s[1]) THEN " " ELSE s[1]>>
    ELSE LET m == Len(s) \div 2
             l == CollapseSpaces(SubSeq(s, 1, m))
             r == CollapseSpaces(SubSeq(s, m + 1, Len(s)))
         IN  IF Last(l) = " " /\ Head(r) = " " THEN l \o Tail(r) ELSE l \o r

\* Line 64: filename[:max_length].rstrip()
Truncate(s, n) == RStrip(SubSeq(s, 1, IF n < Len(s) THEN n ELSE Len(s)))

\* Lines 41-65: the function without the default name of lines 67-68
sanitize_without_default(name) ==
    IF name = <<>> THEN video
    ELSE LET replaced  == ReplaceInvalid(name)
             collapsed == Strip(CollapseSpaces(replaced))
             stripped  == RStripPeriods(collapsed)
         IN  IF Len(stripped) > max_length
             THEN Truncate(stripped, max_length) ELSE stripped

\* Lines 41-70
sanitize_filename(name) ==
    IF name = <<>> THEN video
    ELSE LET replaced  == ReplaceInvalid(name)
             collapsed == Strip(CollapseSpaces(replaced))
             stripped  == RStripPeriods(collapsed)
             limited   == IF Len(stripped) > max_length
                          THEN Truncate(stripped, max_length) ELSE stripped
         IN  IF limited = <<>> THEN video ELSE limited

\* --- the names tried: a run of letters, its length around max_length,
\* followed by every short string of the alphabet ...

MaxTail == 3

Tails(n) == UNION {[1..k -> Alphabet] : k \in 0..n}

RunLengths == {0, 1, max_length - 2, max_length - 1, max_length, max_length + 1}

\* ... and the name '....'
Filenames ==
    {Str(n, "a") \o t : n \in RunLengths, t \in Tails(MaxTail)}
        \cup {Str(4, ".")}

(***************************************************************************)
(* download_video: the output template.  "%EXT" and "%HEIGHT" are the      *)
(* fields %(ext)s and %(height)s of the template, one element each.        *)
(***************************************************************************)

max_title_length == 150
PathLimit == 250
Reserve == 20

mp4 == <<"m", "p", "4">>
h1080 == <<"1", "0", "8", "0">>

\* os.path.join(DOWNLOAD_DIR, name) for a directory without a final separator
Join(dir, name) == dir \o <<"/">> \o name

\* Lines 287 and 289: f'{title}.%(ext)s' and f'{title}_%(height)sp.%(ext)s'
OutName(title, audio) ==
    IF audio THEN title \o <<".", "%EXT">>
    ELSE title \o <<"_", "%HEIGHT", "p", ".", "%EXT">>

\* str.replace(field, text): every occurrence, from the left
RECURSIVE Replace(_, _, _)
Replace(s, field, text) ==
    LET at == {i \in 1..Len(s) : s[i] = field}
    IN  IF at = {} THEN s
        ELSE LET i == CHOOSE i \in at : \A j \in at : i <= j
             IN  SubSeq(s, 1, i - 1) \o text
                     \o Replace(SubSeq(s, i + 1, Len(s)), field, text)

\* The template with its fields filled in
Substitute(tmpl, ext, height) == Replace(Replace(tmpl, "%EXT", ext), "%HEIGHT", height)

\* Lines 275-283: the sanitized title, cut to max_title_length
FirstTitle(raw) ==
    LET title == sanitize_filename(raw)
    IN  IF Len(title) > max_title_length THEN Truncate(title, max_title_length)
        ELSE title

\* Lines 295-296 with the title left as it is
ShortenNot(title, dir) == title

\* Lines 295-296: the title cut to what the directory leaves
Shorten(title, dir) ==
    LET remaining == PathLimit - Len(dir) - Reserve
    IN  IF remaining > 0 THEN Truncate(title, remaining) ELSE video

\* Line 292-293: the path is too long with mp4 and 1080 filled in
TooLong(tmpl) == Len(Substitute(tmpl, mp4, h1080)) > PathLimit

\* Lines 275-300: the title the download uses
FinalTitle(dir, raw, audio) ==
    LET title == FirstTitle(raw)
    IN  IF TooLong(Join(dir, OutName(title, audio))) THEN Shorten(title, dir)
        ELSE title

\* Lines 285-300: ydl_opts['outtmpl']
OutTmpl(dir, raw, audio) == Join(dir, OutName(FinalTitle(dir, raw, audio), audio))

\* --- the directories and titles tried

MaxTitleTail == 1

\* Directory lengths: short, around the lengths where a full title stops
\* fitting, and around the length where the reserve is used up
DirLengths == {10, 89, 90, 95, 96, 229, 230, 234, 235, 241}

\* Title lengths: short, around both cuts, and 10,000 characters
TitleRuns == {0, 4, 5, max_title_length - 1, max_title_length,
              max_title_length + 1, max_length + 1, 10000}

Titles == {Str(n, "a") \o t : n \in TitleRuns, t \in Tails(MaxTitleTail)}

\* What the provider fills in: the extension and height of the stream
Exts == {<<"m", "p", "3">>, mp4, <<"m", "4", "a">>, <<"w", "e", "b", "m">>}
HeightTexts == {<<"N", "A">>, <<"3", "6", "0">>, h1080, <<"2", "1", "6", "0">>}

(***************************************************************************)
(* download_progress, progress_hook and get_progress.  A percentage is     *)
(* kept in tenths of a percent: round(x, 1) has one decimal.               *)
(***************************************************************************)

\* n percent, in tenths
Percent(n) == n * 10

\* Line 277
StartingRecord == [status |-> "starting", percent |-> Percent(0)]
\* Lines 90-93
FinishedRecord == [status |-> "finished", percent |-> Percent(100)]
\* Line 351
UnknownRecord == [status |-> "unknown", percent |-> Percent(0)]

\* round(downloaded / total * 100, 1) in tenths, an exact half going to the
\* even tenth
RoundedPercent(downloaded, total) ==
    LET q == (downloaded * 1000) \div total
        r == (downloaded * 1000) % total
    IN  IF 2 * r < total THEN q
        ELSE IF 2 * r > total THEN q + 1
        ELSE IF q % 2 = 0 THEN q ELSE q + 1

\* Lines 82-87
ProgressRecord(d, total) ==
    [status  |-> "downloading",
     percent |-> RoundedPercent(d.downloaded_bytes, total),
     speed   |-> Get(d.speed, 0),
     eta     |-> Get(d.eta, 0)]

\* download_progress = {key: value}: the dict replaced by a new one
StoreAlone(dict, key, value) == [k \in {key} |-> value]

\* download_progress[key]['status'] = value['status']: an entry that exists
\* changed in place, one field only
StoreStatusInPlace(dict, key, value) ==
    IF key \in DOMAIN dict
    THEN [k \in DOMAIN dict |->
             IF k = key THEN [dict[k] EXCEPT !.status = value.status] ELSE dict[k]]
    ELSE [k \in DOMAIN dict \cup {key} |-> IF k = key THEN value ELSE dict[k]]

\* download_progress[key] = value
Store(dict, key, value) ==
    [k \in DOMAIN dict \cup {key} |-> IF k = key THEN value ELSE dict[k]]

\* download_progress.setdefault(key, {'status': 'starting', 'percent': 0}):
\* an entry that exists is kept
CreateIfAbsent(dict, key) ==
    IF key \in DOMAIN dict THEN dict ELSE Store(dict, key, StartingRecord)

\* Line 277: download_progress[video_id] = {'status': 'starting', 'percent': 0}
Create(dict, key) == Store(dict, key, StartingRecord)

\* The error path marking the job: download_progress[key]['status'] = 'failed'
AfterFailureMarked(dict, key) ==
    IF key \in DOMAIN dict
    THEN [k \in DOMAIN dict |->
             IF k = key THEN [dict[k] EXCEPT !.status = "failed"] ELSE dict[k]]
    ELSE dict

\* Lines 321-345: the dict after the error path of the request for key; no
\* statement of it names download_progress
AfterFailure(dict, key) == dict

\* Line 77: total
TotalOf(d) == Or(d.total_bytes, Get(d.total_bytes_estimate, 0))

\* Line 80: None > 0 raises TypeError
HookRaises(d) == d.status = "downloading" /\ TotalOf(d) = None

\* progress_hook storing a 'downloading' record whatever the total is, with
\* percent 0 where none can be derived
HookStoresWithoutTotal(dict, d) ==
    IF d.status = "downloading"
    THEN LET total == TotalOf(d)
         IN  IF total > 0 THEN Store(dict, d.id, ProgressRecord(d, total))
             ELSE Store(dict, d.id, [ProgressRecord(d, 1) EXCEPT !.percent = 0])
    ELSE IF d.status = "finished" THEN Store(dict, d.id, FinishedRecord)
    ELSE dict

\* Lines 73-93: the dict after progress_hook(d); it is the dict as it was
\* when line 80 raises
Hook(dict, d) ==
    IF d.status = "downloading"
    THEN LET total == TotalOf(d)
         IN  IF total > 0 THEN Store(dict, d.id, ProgressRecord(d, total))
             ELSE dict
    ELSE IF d.status = "finished" THEN Store(dict, d.id, FinishedRecord)
    ELSE dict

\* download_progress.setdefault(key, default): the dict after a lookup that
\* inserts
AfterSetDefault(dict, key) ==
    IF key \in DOMAIN dict THEN dict ELSE Store(dict, key, UnknownRecord)

\* Line 351: the dict after download_progress.get(key, default)
AfterGet(dict, key) == dict

\* Line 351: download_progress.get(video_id, {'status': 'unknown', 'percent': 0})
Lookup(dict, key) == IF key \in DOMAIN dict THEN dict[key] ELSE UnknownRecord

\* --- the 'url' of a request body

\* A JSON value under the key 'url': the key absent, null, or a string
JsonUrl(json, text) == [json |-> json, text |-> text]

NoUrl == JsonUrl("unread", <<>>)

\* Lines 115 and 234: data.get('url', '')
GetUrl(data) == IF data.json = "absent" THEN JsonUrl("string", <<>>) ELSE data

\* Lines 115 and 234: .strip() of None raises AttributeError
UrlRaises(data) == GetUrl(data).json = "null"

\* Lines 115 and 234: data.get('url', '').strip()
StrippedUrl(data) == Strip(GetUrl(data).text)

\* Lines 117 and 238: not (not url)
UrlGiven(data) == ~UrlRaises(data) /\ StrippedUrl(data) # <<>>

\* The key absent, null, the empty string, whitespace only
MissingUrls ==
    {JsonUrl("absent", <<>>), JsonUrl("null", <<>>), JsonUrl("string", <<>>),
     JsonUrl("string", <<" ", "NBSP">>)}

\* A URL with a space before it
GivenUrls == {JsonUrl("string", <<" ", "u">>)}

Urls == MissingUrls \cup GivenUrls

\* --- the exceptions download_video catches

\* An exception as the handlers of lines 323-345 see it: its class, e.errno
\* and whether str(e) contains 'Invalid argument' or 'Errno 22'
Exception(class, errno, invalid) ==
    [class |-> class, errno |-> errno, invalid |-> invalid]

NoException == Exception("none", None, FALSE)

\* yt_dlp.DownloadError with and without the words; OSError with errno 22
\* ("[Errno 22] Invalid argument"), with another errno, and with no errno
\* but the words as its message; any other exception with and without them
Exceptions ==
    {Exception("DownloadError", None, FALSE),
     Exception("DownloadError", None, TRUE),
     Exception("OSError", 22, TRUE),
     Exception("OSError", 13, FALSE),
     Exception("OSError", None, TRUE),
     Exception("Exception", None, FALSE),
     Exception("Exception", None, TRUE)}

\* 'NoneType' object has no attribute 'strip'
AttributeError == Exception("Exception", None, FALSE)

\* '>' not supported between instances of 'NoneType' and 'int'
TypeError == Exception("Exception", None, FALSE)

\* What the provider raises when it cannot resolve or fetch the URL
ExtractionErrors == {Exception("DownloadError", None, FALSE)}

\* Lines 323-345 without the OSError handler of lines 331-337
ClassifyWithoutOSError(e) ==
    IF e.class = "DownloadError" THEN IF e.invalid THEN 400 ELSE 400
    ELSE IF e.invalid THEN 400 ELSE 500

\* Lines 323-345: the status the handler of the exception answers with
Classify(e) ==
    IF e.class = "DownloadError" THEN IF e.invalid THEN 400 ELSE 400
    ELSE IF e.class = "OSError" THEN IF e.errno = 22 THEN 400 ELSE 500
    ELSE IF e.invalid THEN 400 ELSE 500

\* --- the requests and what the provider reports

\* Flask serves every request on a thread of its own (threaded=True)
DownloadThreads == {"d1", "d2"}
PollThreads == {"p1"}

\* The ids the provider resolves URLs to; the ids polled: one of them and an
\* id no URL resolves to
VideoIds == {"A", "B"}
PollIds == {"A", "Z"}

\* The value of video_id and hook_id before they are set
NoId == ""

\* The largest byte count the provider reports
MaxBytes == 2

\* Line 262: a video is fetched as bestvideo+bestaudio, two streams, or as
\* one muxed stream; audio only is one stream
MaxStreams == 2

\* The 'downloading' events of the provider: total_bytes known or None,
\* total_bytes_estimate absent, None, zero or given, any downloaded_bytes
ProgressEvents(id) ==
    {[status |-> "downloading", id |-> id, total_bytes |-> tb,
      total_bytes_estimate |-> te, downloaded_bytes |-> db,
      speed |-> None, eta |-> 3] :
        tb \in {None, MaxBytes}, te \in {Absent, None, 0, 1}, db \in 0..MaxBytes}

FinishedEvent(id) == [status |-> "finished", id |-> id]

\* The value of event where progress_hook is called by the provider
NoEvent == [status |-> "none", id |-> NoId]

\* --- the files of DOWNLOAD_DIR

h720 == <<"7", "2", "0">>
h360 == <<"3", "6", "0">>

\* info.get('title') of a video: its id and 30 more characters
TitleOf(id) == <<id>> \o Str(30, "t")

\* Line 236: the first request asks for 1080p and the second for 720p; the
\* provider fills %(height)s with the height it was asked for
HeightOf(t) == IF t = "d1" THEN h1080 ELSE h720

\* Lines 275-296: title
TitleUsed(id) == FinalTitle(DOWNLOAD_DIR, TitleOf(id), FALSE)

\* Lines 300-304: the name of the file ydl.download writes, merged to mp4
OutFile(id, height) == Substitute(OutName(TitleUsed(id), FALSE), mp4, height)

\* s[:n]
Prefix(s, n) == SubSeq(s, 1, IF Len(s) < n THEN Len(s) ELSE n)

\* Line 309: sub in f
Contains(f, sub) ==
    \E i \in 0..(Len(f) - Len(sub)) : SubSeq(f, i + 1, i + Len(sub)) = sub

\* Lines 308-309: the names of the listing that contain title[:30]
Matches(listing, id) == {f \in listing : Contains(f, Prefix(TitleUsed(id), 30))}

\* The file an earlier download of video A at 360p left in the directory
Leftover == OutFile("A", h360)

\* downloaded_file before line 310 binds it
NoFile == <<>>

\* A poll thread that holds no looked-up object, or has not answered yet
NoAnswer == [status |-> "", percent |-> 0]

\* --- the state of the parts a specification leaves alone

RankIdle == formats = <<>> /\ info_response = NotRun
SanIdle  == filename = <<>> /\ sanitized = NotRunStr /\ resanitized = NotRunStr
PathIdle == /\ DOWNLOAD_DIR = <<>> /\ info_title = <<>>
            /\ is_audio_only = FALSE /\ outtmpl = NotRunStr
JobIdle  == /\ download_progress = <<>> /\ pc = <<>> /\ video_id = <<>>
            /\ streams_left = <<>> /\ hook_id = ""
            /\ progress = <<>> /\ poll_id = <<>> /\ poll_response = <<>>
            /\ response = <<>> /\ raised = <<>>
            /\ files = {} /\ downloaded_file = <<>> /\ event = NoEvent

ReqIdle  == url = <<>> /\ extract_calls = {}

\* --- get_video_info as a request

\* The one request of this specification
InfoRequest == "info"

\* A request with a URL, which the provider resolves to `formats`, or a
\* request without one, for which the provider is never asked
InitRank ==
    /\ url \in [{InfoRequest} -> Urls]
    /\ formats \in IF UrlGiven(url[InfoRequest]) THEN FormatLists ELSE {<<>>}
    /\ info_response = NotRun
    /\ extract_calls = {}
    /\ SanIdle /\ PathIdle /\ JobIdle

\* Lines 103-216; the provider resolves every URL it is given
GetVideoInfo ==
    /\ info_response = NotRun
    /\ IF UrlRaises(url[InfoRequest])
       THEN info_response' = [status |-> 500] /\ UNCHANGED extract_calls
       ELSE IF ~UrlGiven(url[InfoRequest])
       THEN info_response' = [status |-> 400] /\ UNCHANGED extract_calls
       ELSE /\ extract_calls' = extract_calls \cup {InfoRequest}
            /\ info_response' = Rank(formats)
    /\ UNCHANGED <<formats, url, sanVars, pathVars, jobVars>>

NextRank == GetVideoInfo

SpecRank == InitRank /\ [][NextRank]_vars


\* --- claims about the ranking

Ranked == info_response.status = 200
Tiers == info_response.formats
VideoTiers == Front(Tiers)

IsAudioOnly(t) == "audio_only" \in DOMAIN t /\ t.audio_only

\* C1: the video tiers of a ranked response (all entries but the last) are
\* strictly decreasing in height, so no height occurs twice, and the list has
\* at most 8 entries, at most 7 of them video tiers.
C1_StrictlyDescendingAtMost8 ==
    Ranked =>
        /\ \A i \in 1..(Len(VideoTiers) - 1) :
               VideoTiers[i].height > VideoTiers[i + 1].height
        /\ \A i, j \in 1..Len(VideoTiers) :
               i # j => VideoTiers[i].height # VideoTiers[j].height
        /\ Len(VideoTiers) <= 7
        /\ Len(Tiers) <= 8

\* Every offered height plus a second stream of one of them ranks to the full
\* list of 7 video tiers and the audio tier.
C1_Witness ==
    /\ Ranked
    /\ Len(Tiers) = 8
    /\ Len(formats) = Len(AllHeights) + 1
    /\ \E i, j \in 1..Len(formats) :
           i # j /\ formats[i].height = formats[j].height /\ ~Skipped(formats[i])
              /\ ~Skipped(formats[j])

\* The bitrate and size of a descriptor as the claim words them
RateOf(f) ==
    IF f.vbr # None /\ f.vbr # 0 THEN f.vbr
    ELSE IF f.tbr # None /\ f.tbr # 0 THEN f.tbr ELSE 0
SizeOf(f) ==
    IF f.filesize # None /\ f.filesize # 0 THEN f.filesize
    ELSE IF f.filesize_approx \in {None, Absent} THEN 0 ELSE f.filesize_approx

Candidates(fs, h) ==
    {j \in 1..Len(fs) : fs[j].vcodec # "none" /\ fs[j].height = h}

\* The tier of height t.height names a descriptor of that height with the
\* greatest bitrate and, among those of that bitrate, the greatest size
BestOfHeight(fs, t) ==
    \E c \in Candidates(fs, t.height) :
        /\ fs[c].format_id = t.format_id
        /\ \A g \in Candidates(fs, t.height) :
               /\ RateOf(fs[g]) <= RateOf(fs[c])
               /\ RateOf(fs[g]) = RateOf(fs[c]) => SizeOf(fs[g]) <= SizeOf(fs[c])

\* ... and it is the first such descriptor of the list
FirstOfBest(fs, t) ==
    \E c \in Candidates(fs, t.height) :
        /\ fs[c].format_id = t.format_id
        /\ \A g \in Candidates(fs, t.height) :
               (RateOf(fs[g]) = RateOf(fs[c]) /\ SizeOf(fs[g]) = SizeOf(fs[c]))
                   => c <= g

FormatIds(tiers) == [i \in 1..Len(tiers) |-> tiers[i].format_id]

Swap(fs, i) == [fs EXCEPT ![i] = fs[i + 1], ![i + 1] = fs[i]]

\* Exchanging two neighbours of the list changes no tier's format id
OrderIndependent(fs, tiers) ==
    \A i \in 1..(Len(fs) - 1) :
        LET other == Rank(Swap(fs, i))
        IN  other.status = 200 => FormatIds(other.formats) = FormatIds(tiers)

ScenarioRanked ==
    (formats = WithIds(Scenario) /\ info_response # NotRun) =>
        /\ Ranked
        /\ [i \in 1..Len(Tiers) |-> Tiers[i].height] = <<1080, 720, 360, 0>>
        /\ Tiers[1].format_id = "2"

\* C2 as stated: each video tier names a descriptor of its height with the
\* greatest bitrate and then the greatest size, and the choice is the same for
\* every order of the input list.
C2_Original ==
    Ranked =>
        /\ \A i \in 1..Len(VideoTiers) : BestOfHeight(formats, VideoTiers[i])
        /\ OrderIndependent(formats, Tiers)

\* C2 amended: each video tier names a descriptor of its height with the
\* greatest bitrate and then the greatest size; among descriptors equal in
\* both it names the first of the input list.  Heights [1080,1080,720,360]
\* with bitrates [5000,8000,3000,1000] give the 8000 descriptor for 1080.
C2_BestOfHeightFirstOnTie ==
    /\ Ranked =>
           \A i \in 1..Len(VideoTiers) :
               /\ BestOfHeight(formats, VideoTiers[i])
               /\ FirstOfBest(formats, VideoTiers[i])
    /\ ScenarioRanked

\* A later descriptor won its height on size alone, against an earlier one of
\* the same bitrate.
C2_Witness ==
    /\ Ranked
    /\ \E i \in 1..Len(VideoTiers) :
         \E c, g \in Candidates(formats, VideoTiers[i].height) :
             /\ formats[c].format_id = VideoTiers[i].format_id
             /\ g < c
             /\ RateOf(formats[g]) = RateOf(formats[c])
             /\ SizeOf(formats[g]) < SizeOf(formats[c])

\* C3: every call of the ranking step, the empty list included, returns a
\* list with exactly one audio-only tier (bestaudio, height 0, mp3), as its
\* last entry; for the empty list it is the only entry.
C3_AudioTierAlwaysLast ==
    (info_response # NotRun /\ InfoRequest \in extract_calls) =>
        /\ Ranked
        /\ Last(Tiers) = AudioTier
        /\ Cardinality({i \in 1..Len(Tiers) : IsAudioOnly(Tiers[i])}) = 1
        /\ formats = <<>> => Tiers = <<AudioTier>>

\* The same, for the calls that return a list
C3_AudioTierLastWhenRanked ==
    Ranked =>
        /\ Last(Tiers) = AudioTier
        /\ Cardinality({i \in 1..Len(Tiers) : IsAudioOnly(Tiers[i])}) = 1
        /\ formats = <<>> => Tiers = <<AudioTier>>

\* The heights of the target set that a descriptor with a video stream has
TargetHeightsPresent(fs) ==
    {target_heights[k] : k \in 1..Len(target_heights)}
        \cap {fs[i].height : i \in {j \in 1..Len(fs) : fs[j].vcodec # "none"}}

\* The heights of the video tiers of the response, none without a list
TierHeights ==
    IF Ranked THEN {VideoTiers[i].height : i \in 1..Len(VideoTiers)} ELSE {}

\* C18: the video tiers of a ranking are exactly the heights of the target
\* set {2160, 1440, 1080, 720, 480, 360, 240} that occur among the
\* descriptors with a video stream: none for a descriptor without one or
\* without a height, none outside the target set, none for an absent height,
\* and one for every target height that occurs.
C18_TiersAreTargetHeightsPresent ==
    (info_response # NotRun /\ InfoRequest \in extract_calls) =>
        TierHeights = TargetHeightsPresent(formats)

\* The same, for the calls that return a list
C18_TiersAreTargetHeightsWhenRanked ==
    Ranked => TierHeights = TargetHeightsPresent(formats)



\* --- sanitize_filename applied to a name, then to its own result

InitSanitize ==
    /\ filename \in Filenames
    /\ sanitized = NotRunStr /\ resanitized = NotRunStr
    /\ RankIdle /\ PathIdle /\ JobIdle /\ ReqIdle

SanitizeOnce ==
    /\ sanitized = NotRunStr
    /\ sanitized' = sanitize_filename(filename)
    /\ UNCHANGED <<filename, resanitized, rankVars, pathVars, jobVars, reqVars>>

SanitizeAgain ==
    /\ sanitized # NotRunStr /\ resanitized = NotRunStr
    /\ resanitized' = sanitize_filename(sanitized)
    /\ UNCHANGED <<filename, sanitized, rankVars, pathVars, jobVars, reqVars>>

NextSanitize == SanitizeOnce \/ SanitizeAgain

SpecSanitize == InitSanitize /\ [][NextSanitize]_vars

\* C4: sanitize_filename is idempotent: applied to its own result it returns
\* that result, also for names longer than 200 characters and names with a
\* period or space at the cut.
C4_Idempotent ==
    resanitized # NotRunStr => resanitized = sanitized

\* A name of periods, spaces and other whitespace that is no control
\* character: nothing of it is left by lines 52-58
OnlyPeriodsAndSpaces(s) == \A i \in 1..Len(s) : s[i] \in {".", " ", "NBSP"}

\* C12: sanitize_filename never returns the empty string, and it returns
\* 'video' for the empty name and for every name of which the replacement,
\* whitespace and trailing-period steps leave nothing, such as '....'.
C12_NeverEmptyVideoWhenNothingLeft ==
    sanitized # NotRunStr =>
        /\ sanitized # <<>>
        /\ OnlyPeriodsAndSpaces(filename) => sanitized = video

\* The name '....' was sanitized to 'video'.
C12_Witness ==
    /\ filename = Str(4, ".")
    /\ sanitized = video


\* --- the output template of one download request

InitPath ==
    /\ DOWNLOAD_DIR \in {Str(n, "d") : n \in DirLengths}
    /\ info_title \in Titles
    /\ is_audio_only \in BOOLEAN
    /\ outtmpl = NotRunStr
    /\ RankIdle /\ SanIdle /\ JobIdle /\ ReqIdle

\* Lines 275-300
BuildOutTmpl ==
    /\ outtmpl = NotRunStr
    /\ outtmpl' = OutTmpl(DOWNLOAD_DIR, info_title, is_audio_only)
    /\ UNCHANGED <<DOWNLOAD_DIR, info_title, is_audio_only, rankVars, sanVars,
                   jobVars, reqVars>>

NextPath == BuildOutTmpl

SpecPath == InitPath /\ [][NextPath]_vars

PathsWithin(limit, exts) ==
    \A e \in exts, h \in HeightTexts : Len(Substitute(outtmpl, e, h)) <= limit

\* C5 as stated: the output template with its height and extension filled in
\* is never longer than 250 characters, for every title and every download
\* directory, for video and for audio only.
C5_Original ==
    outtmpl # NotRunStr => PathsWithin(PathLimit, Exts)

\* The shortest name the code falls back to, video_1080p.mp4, fits
FallbackFits ==
    Len(Substitute(Join(DOWNLOAD_DIR, OutName(video, FALSE)), mp4, h1080)) <= PathLimit

\* C5 amended: when the download directory is short enough for the fallback
\* name video_1080p.mp4 (at most 234 characters), the output template with a
\* height of at most four characters and an extension of at most three
\* characters filled in is never longer than 250 characters, for every title,
\* for video and for audio only.
C5_WithinLimitWhenFallbackFits ==
    (outtmpl # NotRunStr /\ FallbackFits) =>
        PathsWithin(PathLimit, {e \in Exts : Len(e) <= Len(mp4)})

\* A title of more than max_length characters, cut a second time because the
\* first template was too long for the directory.
C5_Witness ==
    /\ outtmpl # NotRunStr
    /\ FallbackFits
    /\ Len(info_title) > max_length
    /\ TooLong(Join(DOWNLOAD_DIR, OutName(FirstTitle(info_title), is_audio_only)))
    /\ Len(FinalTitle(DOWNLOAD_DIR, info_title, is_audio_only)) < max_title_length


\* --- download requests, provider events and polls as threads

\* The downloads directory of the job specifications
JobDir == Str(10, "d")

PathOfJobs ==
    /\ DOWNLOAD_DIR = JobDir /\ info_title = <<>>
    /\ is_audio_only = FALSE /\ outtmpl = NotRunStr

\* No request has arrived, the dict is empty
InitJobs ==
    /\ download_progress = <<>>
    /\ pc = [t \in DownloadThreads |-> "new"]
    /\ video_id = [t \in DownloadThreads |-> NoId]
    /\ streams_left = [t \in DownloadThreads |-> 0]
    /\ hook_id = NoId
    /\ response = [t \in DownloadThreads |-> 0]
    /\ raised = [t \in DownloadThreads |-> NoException]
    /\ downloaded_file = [t \in DownloadThreads |-> NoFile]
    /\ url = [t \in DownloadThreads |-> NoUrl]
    /\ extract_calls = {}
    /\ event = NoEvent
    /\ RankIdle /\ SanIdle /\ PathOfJobs

Init ==
    /\ InitJobs
    /\ files = {}
    /\ progress = [p \in PollThreads |-> NoAnswer]
    /\ poll_id = [p \in PollThreads |-> NoId]
    /\ poll_response = [p \in PollThreads |-> NoAnswer]

pure == <<rankVars, sanVars, pathVars>>

\* The locals of download_video are gone when it has returned
Return(t, code) ==
    /\ pc' = [pc EXCEPT ![t] = "done"]
    /\ response' = [response EXCEPT ![t] = code]
    /\ video_id' = [video_id EXCEPT ![t] = NoId]
    /\ streams_left' = [streams_left EXCEPT ![t] = 0]

\* Lines 323-345: an exception ends the request with the handler's answer
Except(t, e) ==
    /\ Return(t, Classify(e))
    /\ raised' = [raised EXCEPT ![t] = e]

\* Lines 232-239 and 338-345: a request without a URL
Reject(t, urls) ==
    /\ pc[t] = "new"
    /\ \E u \in urls :
        /\ ~UrlGiven(u)
        /\ url' = [url EXCEPT ![t] = u]
        /\ IF UrlRaises(u) THEN Except(t, AttributeError)
           ELSE Return(t, 400) /\ UNCHANGED raised
    /\ UNCHANGED <<download_progress, hook_id, extract_calls, fileVars, event,
                   pollVars, pure>>

\* Lines 232-277, the provider resolving the URL: the job entry is created
Start(t, urls) ==
    /\ pc[t] = "new"
    /\ \E u \in urls :
        /\ UrlGiven(u)
        /\ url' = [url EXCEPT ![t] = u]
    /\ extract_calls' = extract_calls \cup {t}
    /\ \E id \in VideoIds, n \in 1..MaxStreams :
        /\ video_id' = [video_id EXCEPT ![t] = id]
        /\ streams_left' = [streams_left EXCEPT ![t] = n]
        /\ download_progress' = Create(download_progress, id)
    /\ pc' = [pc EXCEPT ![t] = "fetch"]
    /\ UNCHANGED <<hook_id, response, raised, fileVars, event, pollVars, pure>>

\* Lines 232-273 and 323-345: extract_info raises and the handler answers
StartFails(t, urls, failures) ==
    /\ pc[t] = "new"
    /\ \E u \in urls :
        /\ UrlGiven(u)
        /\ url' = [url EXCEPT ![t] = u]
    /\ extract_calls' = extract_calls \cup {t}
    /\ \E e \in failures : Except(t, e)
    /\ UNCHANGED <<download_progress, hook_id, fileVars, event, pollVars, pure>>

\* Line 304, the provider calling progress_hook with a 'downloading' event;
\* an exception of the hook ends ydl.download and reaches lines 338-345
ProgressEvent(t) ==
    /\ pc[t] = "fetch" /\ streams_left[t] > 0
    /\ \E d \in ProgressEvents(video_id[t]) :
        /\ download_progress' = Hook(download_progress, d)
        /\ hook_id' = d.id
        /\ IF HookRaises(d) THEN Except(t, TypeError)
           ELSE UNCHANGED <<pc, video_id, streams_left, response, raised>>
    /\ UNCHANGED <<fileVars, event, url, extract_calls, pollVars, pure>>

\* Line 304, the provider calling progress_hook when a stream is complete;
\* with the last stream the output file is in the directory
StreamFinished(t) ==
    /\ pc[t] = "fetch" /\ streams_left[t] > 0
    /\ download_progress' = Hook(download_progress, FinishedEvent(video_id[t]))
    /\ hook_id' = video_id[t]
    /\ streams_left' = [streams_left EXCEPT ![t] = @ - 1]
    /\ files' = IF streams_left[t] = 1
                THEN files \cup {OutFile(video_id[t], HeightOf(t))} ELSE files
    /\ UNCHANGED <<pc, video_id, response, raised, downloaded_file, event,
                   url, extract_calls, pollVars, pure>>

\* Lines 304-321: ydl.download has returned; the first name of the listing
\* that contains title[:30] is answered, and os.listdir lists in any order
FetchReturns(t) ==
    /\ pc[t] = "fetch" /\ streams_left[t] = 0
    /\ LET found == Matches(files, video_id[t])
       IN  IF found = {}
           THEN /\ Return(t, 500)
                /\ download_progress' = AfterFailure(download_progress, video_id[t])
                /\ UNCHANGED downloaded_file
           ELSE /\ Return(t, 200)
                /\ \E f \in found :
                      downloaded_file' = [downloaded_file EXCEPT ![t] = f]
                /\ UNCHANGED download_progress
    /\ UNCHANGED <<hook_id, raised, files, event, url, extract_calls, pollVars,
                   pure>>

\* Lines 304 and 323-345: ydl.download raises and the handler answers
FetchFails(t, failures) ==
    /\ pc[t] = "fetch"
    /\ \E e \in failures : Except(t, e)
    /\ download_progress' = AfterFailure(download_progress, video_id[t])
    /\ UNCHANGED <<hook_id, fileVars, event, url, extract_calls, pollVars, pure>>

\* Lines 371-383: every file of the directory is removed
CleanupFiles ==
    /\ files # {}
    /\ files' = {}
    /\ UNCHANGED <<download_progress, pc, video_id, streams_left, hook_id,
                   response, raised, downloaded_file, event, url,
                   extract_calls, pollVars, pure>>

\* Line 351 of get_progress(id)
PollLookup(p) ==
    /\ progress[p] = NoAnswer /\ poll_response[p] = NoAnswer
    /\ \E id \in PollIds :
        /\ poll_id' = [poll_id EXCEPT ![p] = id]
        /\ progress' = [progress EXCEPT ![p] = Lookup(download_progress, id)]
        /\ download_progress' = AfterGet(download_progress, id)
    /\ UNCHANGED <<pc, video_id, streams_left, hook_id, response, raised,
                   fileVars, event, url, extract_calls, poll_response, pure>>

\* Line 352: jsonify(progress)
PollRespond(p) ==
    /\ progress[p] # NoAnswer
    /\ poll_response' = [poll_response EXCEPT ![p] = progress[p]]
    /\ progress' = [progress EXCEPT ![p] = NoAnswer]
    /\ UNCHANGED <<download_progress, pc, video_id, streams_left, hook_id,
                   response, raised, fileVars, event, url, extract_calls,
                   poll_id, pure>>

\* Download requests with a URL and polls, over an empty directory; the
\* provider fails with DownloadError only
Next ==
    \/ \E t \in DownloadThreads :
          \/ Start(t, GivenUrls) \/ StartFails(t, GivenUrls, ExtractionErrors)
          \/ ProgressEvent(t) \/ StreamFinished(t) \/ FetchReturns(t)
          \/ FetchFails(t, ExtractionErrors)
    \/ \E p \in PollThreads : PollLookup(p) \/ PollRespond(p)

Spec == Init /\ [][Next]_vars

\* --- download requests and cleanup requests, with and without a URL,
\* failing in every way the handlers tell apart, over a directory that is
\* empty or holds the file of an earlier download

InitDownloads ==
    /\ InitJobs
    /\ files \in {{}, {Leftover}}
    /\ progress = <<>> /\ poll_id = <<>> /\ poll_response = <<>>

NextDownloads ==
    \/ \E t \in DownloadThreads :
          \/ Reject(t, Urls) \/ Start(t, Urls) \/ StartFails(t, Urls, Exceptions)
          \/ ProgressEvent(t) \/ StreamFinished(t) \/ FetchReturns(t)
          \/ FetchFails(t, Exceptions)
    \/ CleanupFiles

SpecDownloads == InitDownloads /\ [][NextDownloads]_vars


\* --- claims about the job map

\* The entry stored under key, NoEntry when there is none
NoEntry == [status |-> "absent"]
EntryOf(dict, key) == IF key \in DOMAIN dict THEN dict[key] ELSE NoEntry

Keys(dict, other) == DOMAIN dict \cup DOMAIN other

\* C6: every stored job has a percent within [0, 100], whatever downloaded
\* and total (> 0, exact or estimated) byte counts the provider reports.
C6_PercentWithin0To100 ==
    \A k \in DOMAIN download_progress :
        /\ download_progress[k].percent >= Percent(0)
        /\ download_progress[k].percent <= Percent(100)

\* A step that is a progress_hook call that stored something: the dict
\* changed and no request started
HookStored == download_progress' # download_progress /\ pc' = pc

\* C7: a 'downloading' or 'finished' event for id A changes only the entry
\* stored under A; the entry under every other id, of a concurrent transfer
\* or of none, is the same before and after the event.
C7_EventChangesOwnEntryOnly ==
    [][HookStored =>
          \A b \in Keys(download_progress, download_progress') \ {hook_id'} :
              EntryOf(download_progress', b) = EntryOf(download_progress, b)]_vars

\* Two transfers of different ids are active and both have reported progress;
\* the latest event was for the first.
C7_Witness ==
    \E t, u \in DownloadThreads :
        /\ pc[t] = "fetch" /\ pc[u] = "fetch"
        /\ video_id[t] # video_id[u]
        /\ hook_id = video_id[t]
        /\ download_progress[video_id[t]].status = "downloading"
        /\ download_progress[video_id[u]].status = "downloading"
        /\ download_progress[video_id[t]] # download_progress[video_id[u]]

\* C8: at most one active transfer writes to the entry of a job id, also when
\* two Start requests for the same URL overlap.
C8_OneWriterPerId ==
    \A t, u \in DownloadThreads :
        (t # u /\ pc[t] = "fetch" /\ pc[u] = "fetch") => video_id[t] # video_id[u]

\* The records a single write stores: line 277, lines 82-87, lines 90-93
WholeRecords ==
    {StartingRecord, FinishedRecord}
        \cup {ProgressRecord(d, total) :
                 d \in UNION {ProgressEvents(id) : id \in VideoIds},
                 total \in 1..MaxBytes}

\* C9: get_progress running beside progress_hook writes never returns a
\* partly written record: what it looks up and returns is the default
\* unknown record or a record some single write stored as a whole.
C9_PollReturnsWholeRecord ==
    /\ \A k \in DOMAIN download_progress : download_progress[k] \in WholeRecords
    /\ \A p \in PollThreads :
          /\ progress[p] \in WholeRecords \cup {UnknownRecord, NoAnswer}
          /\ poll_response[p] \in WholeRecords \cup {UnknownRecord, NoAnswer}

\* A poll answered with a 'downloading' record that a later write has
\* already replaced.
C9_Witness ==
    \E p \in PollThreads :
        /\ poll_response[p] # NoAnswer
        /\ poll_response[p].status = "downloading"
        /\ poll_id[p] \in DOMAIN download_progress
        /\ download_progress[poll_id[p]] # poll_response[p]

\* A step of get_progress
PollStep == progress' # progress \/ poll_response' # poll_response

\* C10: get_progress for an id that has no entry returns status unknown and
\* percent 0, and get_progress for any id leaves the dict as it was: no
\* entry is created and none is changed.
C10_PollLeavesMapUnchanged ==
    [][PollStep =>
          /\ download_progress' = download_progress
          /\ \A p \in PollThreads :
                /\ (progress'[p] # NoAnswer /\ poll_id'[p] \notin DOMAIN download_progress)
                       => progress'[p] = UnknownRecord
                /\ poll_response'[p] # poll_response[p]
                       => poll_response'[p] = progress[p]]_vars

\* A poll for an id that no download created was answered with the default
\* while the dict held entries, and the dict has no entry for it.
C10_Witness ==
    \E p \in PollThreads :
        /\ poll_id[p] = "Z"
        /\ poll_response[p] = UnknownRecord
        /\ download_progress # <<>>
        /\ poll_id[p] \notin DOMAIN download_progress


\* --- claims about the failures of download_video

Failed(t) == pc[t] = "done" /\ raised[t] # NoException

IsErrno22(e) == e.class = "OSError" /\ e.errno = 22

\* C11 as stated: a DownloadError or an OSError with errno 22 is answered
\* with status 400, and every other exception, whatever its message, with
\* status 500.
C11_Original ==
    \A t \in DownloadThreads :
        Failed(t) =>
            response[t] = IF raised[t].class = "DownloadError" \/ IsErrno22(raised[t])
                          THEN 400 ELSE 500

\* C11 amended: a DownloadError or an OSError with errno 22 is answered with
\* status 400; an exception that is neither a DownloadError nor an OSError
\* and whose message contains 'Invalid argument' or 'Errno 22' is answered
\* with status 400 too; every other exception with status 500.
C11_ClassifiedByClassErrnoAndMessage ==
    \A t \in DownloadThreads :
        Failed(t) =>
            /\ response[t] \in {400, 500}
            /\ response[t] = 400 <=>
                  \/ raised[t].class = "DownloadError"
                  \/ IsErrno22(raised[t])
                  \/ raised[t].class = "Exception" /\ raised[t].invalid

\* One request failed with an exception of no special class whose message
\* has the words and got 400, another with an OSError that has the words
\* but no errno and got 500.
C11_Witness ==
    \E t, u \in DownloadThreads :
        /\ Failed(t) /\ raised[t] = Exception("Exception", None, TRUE)
        /\ response[t] = 400
        /\ Failed(u) /\ raised[u] = Exception("OSError", None, TRUE)
        /\ response[u] = 500


\* --- claims about requests without a URL

\* A step in which request t is answered
Answered(t) == pc[t] # "done" /\ pc'[t] = "done"

\* C13: a download request whose URL is missing or empty (the key absent,
\* the empty string, whitespace only, or null) is answered with status 400,
\* without a call of the provider and with the dict left as it was.
C13_NoUrlAnswered400 ==
    [][\A t \in DownloadThreads :
          (Answered(t) /\ url'[t] \in MissingUrls) =>
              /\ response'[t] = 400
              /\ extract_calls' = extract_calls
              /\ download_progress' = download_progress]_vars

\* The same for the three kinds of URL that are not null
C13_NoUrlButNotNullAnswered400 ==
    [][\A t \in DownloadThreads :
          (Answered(t) /\ url'[t] \in MissingUrls /\ url'[t].json # "null") =>
              /\ response'[t] = 400
              /\ extract_calls' = extract_calls
              /\ download_progress' = download_progress]_vars


\* --- claims about the file a download answers with

\* C14: when download_video answers success, the filename of the answer is
\* the name of the file that same download wrote, whatever the directory
\* held before, the file of the same video at another quality included.
C14_AnswersOwnFile ==
    [][\A t \in DownloadThreads :
          (Answered(t) /\ response'[t] = 200) =>
              downloaded_file'[t] = OutFile(video_id[t], HeightOf(t))]_vars

\* C15: a download whose fetch completed without an exception never ends in
\* 'file not found' (status 500), also when cleanup_files runs beside it.
C15_CleanupNeverLosesFile ==
    [][\A t \in DownloadThreads :
          (Answered(t) /\ pc[t] = "fetch" /\ streams_left[t] = 0
              /\ raised'[t] = NoException) => response'[t] = 200]_vars


\* --- claims about the job entry of a download request

\* A step in which request t has its metadata resolved and enters the fetch
Started(t) == pc[t] = "new" /\ pc'[t] = "fetch"

\* C16: the step of a download_video call that enters the fetch, after the
\* metadata was resolved, sets the entry of the media id to status starting
\* and percent 0 whatever was stored there, and changes no other entry; a
\* call that ends before the fetch, its metadata not resolved, leaves the
\* dict as it was; and a progress event is recorded only for an id whose
\* call is in the fetch and has its entry.
C16_CreatedAtStartBeforeEvents ==
    [][/\ \A t \in DownloadThreads :
            /\ Started(t) =>
                  /\ EntryOf(download_progress', video_id'[t]) = StartingRecord
                  /\ \A k \in Keys(download_progress, download_progress')
                                \ {video_id'[t]} :
                         EntryOf(download_progress', k) = EntryOf(download_progress, k)
            /\ (pc[t] = "new" /\ pc'[t] = "done") =>
                  download_progress' = download_progress
       /\ HookStored =>
            /\ hook_id' \in DOMAIN download_progress
            /\ \E t \in DownloadThreads :
                  pc[t] = "fetch" /\ video_id[t] = hook_id']_vars

\* A request is in the fetch with the entry of its id at starting, after
\* another request downloaded the same video to the end and was answered:
\* the finished entry was overwritten.
C16_Witness ==
    \E t, u \in DownloadThreads :
        /\ pc[t] = "fetch"
        /\ download_progress[video_id[t]] = StartingRecord
        /\ pc[u] = "done" /\ response[u] = 200
        /\ downloaded_file[u] = OutFile(video_id[t], HeightOf(u))

\* C17: the error path of a download_video call that fails after its entry
\* was created, by an exception or by 'file not found', leaves the dict as
\* the last write left it; no entry ever has the status failed, the provider
\* is not called again and the request, once answered, stays answered.
C17_ErrorPathLeavesMapAlone ==
    [][\A t \in DownloadThreads :
          /\ (pc[t] = "fetch" /\ pc'[t] = "done" /\ response'[t] # 200) =>
                /\ download_progress' = download_progress
                /\ extract_calls' = extract_calls
          /\ pc[t] = "done" => pc'[t] = "done"
          /\ \A k \in DOMAIN download_progress' :
                download_progress'[k].status # "failed"]_vars

\* Both requests failed in the fetch, one with a provider failure and one
\* with an OS error, and the entries of their two videos are stuck at
\* downloading.
C17_Witness ==
    /\ \A t \in DownloadThreads : pc[t] = "done" /\ response[t] # 200
    /\ \E t, u \in DownloadThreads :
          raised[t].class = "DownloadError" /\ raised[u].class = "OSError"
    /\ \A k \in VideoIds :
          k \in DOMAIN download_progress /\ download_progress[k].status = "downloading"


\* --- progress_hook called once, on any dict and any event

\* What an entry holds: the three kinds of record the code stores
SomeRecords ==
    {StartingRecord, FinishedRecord,
     [status |-> "downloading", percent |-> Percent(50), speed |-> 0, eta |-> 3]}

\* Every dict over the video ids
HookDicts == UNION {[ids -> SomeRecords] : ids \in SUBSET VideoIds}

HookEvents ==
    UNION {ProgressEvents(id) \cup {FinishedEvent(id)} : id \in VideoIds}

InitHook ==
    /\ download_progress \in HookDicts
    /\ event \in HookEvents
    /\ hook_id = NoId
    /\ pc = <<>> /\ video_id = <<>> /\ streams_left = <<>>
    /\ progress = <<>> /\ poll_id = <<>> /\ poll_response = <<>>
    /\ response = <<>> /\ raised = <<>>
    /\ files = {} /\ downloaded_file = <<>>
    /\ RankIdle /\ SanIdle /\ PathIdle /\ ReqIdle

\* Lines 73-93: progress_hook(event)
CallHook ==
    /\ hook_id = NoId
    /\ download_progress' = Hook(download_progress, event)
    /\ hook_id' = event.id
    /\ UNCHANGED <<pc, video_id, streams_left, response, raised, fileVars,
                   event, url, extract_calls, pollVars, pure>>

NextHook == CallHook

SpecHook == InitHook /\ [][NextHook]_vars

\* Neither total_bytes nor total_bytes_estimate is a positive number
TotalUnknownOrZero(d) ==
    /\ d.total_bytes \in {None, Absent, 0}
    /\ d.total_bytes_estimate \in {None, Absent, 0}

\* C19: a 'downloading' event whose total byte count is unknown or zero
\* leaves the dict as it was: the status, percent, speed and eta of every
\* job are what they were before it, a job at starting stays at starting.
C19_EventWithoutTotalChangesNothing ==
    [][(event.status = "downloading" /\ TotalUnknownOrZero(event)) =>
          download_progress' = download_progress]_vars

\* progress_hook was called with a 'downloading' event without a total for
\* a job that is at starting.
C19_Witness ==
    /\ hook_id # NoId
    /\ event.status = "downloading" /\ TotalUnknownOrZero(event)
    /\ event.downloaded_bytes > 0
    /\ hook_id \in DOMAIN download_progress
    /\ download_progress[hook_id] = StartingRecord


\* --- claims about the finished entry

\* Request t is the only one that has arrived
OnlyCall(t) == \A u \in DownloadThreads \ {t} : pc[u] = "new" /\ pc'[u] = "new"

\* C20: within one download_video call, once the entry of its id is
\* finished with percent 100 it stays so for every later provider event of
\* that call, the events of a second stream included.
C20_FinishedStaysFinished ==
    [][\A t \in DownloadThreads :
          (/\ OnlyCall(t)
           /\ pc[t] = "fetch"
           /\ download_progress[video_id[t]] = FinishedRecord) =>
              download_progress'[video_id[t]] = FinishedRecord]_vars

=============================================================================
